---- MODULE Spec2Model ----
(***************************************************************************)
(* A model of stacks-rs' BIP32 engine: child numbers, derivation paths,    *)
(* key versions, extended private/public keys and the 78-byte wire form.   *)
(*                                                                         *)
(* Conventions                                                             *)
(*   - text (&str) is a sequence of one-character strings;                 *)
(*   - a u32 is the pair <<hi, lo>> of its 16-bit halves (TLC's integers   *)
(*     are 32-bit signed, so 2^31 and above have no direct numeral);       *)
(*   - a Result is a record tagged "Ok" / "Err"; an unwrap() on a failure  *)
(*     or an arithmetic overflow caught by the build is tagged "Panic";    *)
(*   - overflow_checks is the build's overflow-checks setting (on in debug *)
(*     builds, off in release builds): unchecked u8/u32 additions wrap.    *)
(***************************************************************************)
EXTENDS Integers, Sequences, FiniteSets, TLC

VARIABLES
    overflow_checks,  \* build mode: TRUE = additions panic on overflow
    op,               \* name of the last operation applied
    value,            \* key_version.rs: the byte slice handed to Version::try_from
    version_res,      \* key_version.rs: result of Version::try_from(value)
    version_in,       \* key_version.rs: the variant `value` was encoded from, or None
    index,            \* child_number.rs: the u32 handed to ChildNumber::new
    cn_s,             \* child_number.rs: the text handed to ChildNumber::from_str
    cn_res,           \* child_number.rs: result of ChildNumber::new / from_str
    cn_n,             \* child_number.rs: number of tokens put into cn_s so far
    s,                \* derivation_path.rs: the text handed to DerivationPath::from_str
    nsegs,            \* derivation_path.rs: number of segments put into s so far
    path_res,         \* derivation_path.rs: result of DerivationPath::from_str(s)
    seed,             \* extended_private_key.rs: the seed the master key was made from
    trail,            \* the child numbers derive_child was applied to since new(seed)
    key,              \* extended_private_key.rs: new(seed) folded with derive_child over trail
    parent,           \* extended_private_key.rs: the key the last derive_child was applied to
    dres,             \* extended_private_key.rs: result of derive_from_path(seed, trail)
    xpub,             \* extended_public_key.rs: the public parent key
    xpub_cn,          \* extended_public_key.rs: the child number handed to derive_child
    xpub_res,         \* extended_public_key.rs: result of xpub.derive_child(xpub_cn)
    ek,               \* extended_keys.rs: the ExtendedKey made by to_extended_key
    bytes,            \* extended_keys.rs: the bytes b58_encode handed to the Base58Check encoder
    encoded,          \* extended_keys.rs: the text ek.b58_encode() returned
    decoded           \* extended_keys.rs: result of ExtendedKey::from_str(encoded)

vars == <<overflow_checks, op, value, version_res, version_in, index, cn_s, cn_n,
          cn_res, s, nsegs, path_res, seed, trail, key, parent, dres, xpub, xpub_cn,
          xpub_res, ek, bytes, encoded, decoded>>

versionVars == <<value, version_res, version_in>>
childVars == <<index, cn_s, cn_n, cn_res>>
pathVars == <<s, nsegs, path_res>>
keyVars == <<seed, trail, key, parent, dres, xpub, xpub_cn, xpub_res>>
wireVars == <<ek, bytes, encoded, decoded>>

----------------------------------------------------------------------------
(* Result values *)

Ok(v) == [tag |-> "Ok", val |-> v]
Err(e) == [tag |-> "Err", err |-> e]
Panic == [tag |-> "Panic"]
None == [tag |-> "None"]

IsOk(r) == r.tag = "Ok"
IsErr(r, e) == r.tag = "Err" /\ r.err = e

----------------------------------------------------------------------------
(* Bounds of the exploration *)

\* how far around 0, 2^15, 2^16 the 16-bit halves of sampled u32 indexes range
Spread == 2
\* how many tokens a ChildNumber text is assembled from
MaxTokens == 3
\* how many "/"-separated segments a path text is assembled from
MaxSegs == 6
\* how many bytes a slice handed to Version::try_from is assembled from
MaxSlice == 5
\* how many derive_child steps are taken from a master key
MaxSteps == 3
\* how many derive_child steps are taken down one branch from a master key
MaxChain == 257

----------------------------------------------------------------------------
(* u32 arithmetic on 16-bit halves *)

Half == 256 * 256

U32Lt(a, b) == a[1] < b[1] \/ (a[1] = b[1] /\ a[2] < b[2])
U32Le(a, b) == a = b \/ U32Lt(a, b)
U32Ge(a, b) == ~U32Lt(a, b)

\* a + b as the pair <<overflowed, wrapped sum>>
U32Add(a, b) ==
    LET lo == a[2] + b[2]
        hi == a[1] + b[1] + (lo \div Half)
    IN  <<hi >= Half, <<hi % Half, lo % Half>>>>

\* a - b for a >= b
U32Sub(a, b) ==
    LET borrow == IF a[2] < b[2] THEN 1 ELSE 0
    IN  <<a[1] - b[1] - borrow, a[2] + borrow * Half - b[2]>>

\* a * k for a small k, as the pair <<overflowed, wrapped product>>
U32MulSmall(a, k) ==
    LET lo == a[2] * k
        hi == a[1] * k + (lo \div Half)
    IN  <<hi >= Half, <<hi % Half, lo % Half>>>>

\* u32::to_be_bytes
to_be_bytes(a) == <<a[1] \div 256, a[1] % 256, a[2] \div 256, a[2] % 256>>

\* u32::from_be_bytes
from_be_bytes(b) == <<b[1] * 256 + b[2], b[3] * 256 + b[4]>>

----------------------------------------------------------------------------
(* Text helpers: str::contains, str::replace(c, ""), str::strip_prefix,     *)
(* str::split and str::parse::<u32>                                         *)

Contains(t, c) == \E i \in 1..Len(t) : t[i] = c

Remove(t, c) == SelectSeq(t, LAMBDA ch : ch /= c)

HasPrefix(t, p) == Len(t) >= Len(p) /\ SubSeq(t, 1, Len(p)) = p

\* Option<&str>: the rest after the prefix, or None
strip_prefix(t, p) ==
    IF HasPrefix(t, p) THEN [tag |-> "Some", val |-> SubSeq(t, Len(p) + 1, Len(t))]
    ELSE None

RECURSIVE Split(_, _)
Split(t, c) ==
    IF ~Contains(t, c) THEN <<t>>
    ELSE LET i == CHOOSE k \in 1..Len(t) : t[k] = c /\ \A j \in 1..(k - 1) : t[j] /= c
         IN  <<SubSeq(t, 1, i - 1)>> \o Split(SubSeq(t, i + 1, Len(t)), c)

Digits == {"0", "1", "2", "3", "4", "5", "6", "7", "8", "9"}

DigitVal(c) ==
    CASE c = "0" -> 0 [] c = "1" -> 1 [] c = "2" -> 2 [] c = "3" -> 3 [] c = "4" -> 4
      [] c = "5" -> 5 [] c = "6" -> 6 [] c = "7" -> 7 [] c = "8" -> 8 [] c = "9" -> 9

\* the digit loop of parse::<u32>: acc * 10 + digit, checked
RECURSIVE ParseDigits(_, _)
ParseDigits(t, acc) ==
    IF t = <<>> THEN Ok(acc)
    ELSE IF Head(t) \notin Digits THEN Err("InvalidDigit")
    ELSE LET m == U32MulSmall(acc, 10)
             a == U32Add(m[2], <<0, DigitVal(Head(t))>>)
         IN  IF m[1] \/ a[1] THEN Err("PosOverflow")
             ELSE ParseDigits(Tail(t), a[2])

\* str::parse::<u32>: an optional leading "+", then at least one decimal digit
parse_u32(t) ==
    IF t = <<>> THEN Err("Empty")
    ELSE IF t = <<"+">> \/ t = <<"-">> THEN Err("InvalidDigit")
    ELSE IF Head(t) = "+" THEN ParseDigits(Tail(t), <<0, 0>>)
    ELSE ParseDigits(t, <<0, 0>>)

----------------------------------------------------------------------------
(* bip32/child_number.rs *)

\* const INDEX_THRESHOLD: u32 = 2147483648
INDEX_THRESHOLD == <<32768, 0>>

\* the bound (INDEX_THRESHOLD - 1) * 2 + 1 of is_hardened's second branch
HardenedMax == U32Add(U32MulSmall(U32Sub(INDEX_THRESHOLD, <<0, 1>>), 2)[2], <<0, 1>>)[2]

\* a plausible slip: the threshold itself counted as a normal index
ChildNumber_is_hardened_inclusive(i) ==
    IF U32Le(i, INDEX_THRESHOLD) THEN Ok(FALSE)
    ELSE IF U32Ge(i, INDEX_THRESHOLD) /\ U32Le(i, HardenedMax) THEN Ok(TRUE)
    ELSE Err("InvalidIndex")

ChildNumber_is_hardened(i) ==
    IF U32Lt(i, INDEX_THRESHOLD) THEN Ok(FALSE)
    ELSE IF U32Ge(i, INDEX_THRESHOLD) /\ U32Le(i, HardenedMax) THEN Ok(TRUE)
    ELSE Err("InvalidIndex")

ChildNumber_new(i) ==
    LET h == ChildNumber_is_hardened(i)
    IN  IF IsOk(h) THEN Ok([index |-> i, is_hardened |-> h.val])
        ELSE h

\* impl FromStr for ChildNumber
ChildNumber_from_str(t, checks) ==
    IF Contains(t, "'")
    THEN LET p == parse_u32(Remove(t, "'"))
         IN  IF ~IsOk(p) THEN Err("CannotParseindex")
             ELSE LET sum == U32Add(p.val, INDEX_THRESHOLD)
                  IN  IF sum[1] /\ checks THEN Panic
                      ELSE ChildNumber_new(sum[2])
    ELSE LET p == parse_u32(t)
         IN  IF ~IsOk(p) THEN Err("CannotParseindex")
             ELSE ChildNumber_new(p.val)

----------------------------------------------------------------------------
(* bip32/derivation_path.rs *)

PATH_PREFIX == <<"m", "/">>
MAX_DEPTH == 5

\* the `for part in splitted` loop: the first failing segment ends the parse
RECURSIVE ParseParts(_, _, _)
ParseParts(parts, path_vec, checks) ==
    IF parts = <<>> THEN Ok([path |-> path_vec])
    ELSE LET child_num == ChildNumber_from_str(Head(parts), checks)
         IN  CASE child_num.tag = "Panic" -> Panic
               [] child_num.tag = "Err" -> Err(<<"InvalidPathIndex", child_num.err>>)
               [] OTHER -> ParseParts(Tail(parts), Append(path_vec, child_num.val), checks)

\* a plausible slip: the depth check off by one
DerivationPath_split_check_lax(splitted) == Len(splitted) > MAX_DEPTH + 1

\* `if splitted.len() > MAX_DEPTH`
DerivationPath_split_check(splitted) == Len(splitted) > MAX_DEPTH

\* impl FromStr for DerivationPath
DerivationPath_from_str(t, checks) ==
    LET stripped_s == strip_prefix(t, PATH_PREFIX)
        str_path == IF stripped_s.tag = "Some" THEN Ok(stripped_s.val)
                    ELSE Err("WrongPathPrefix")
    IN  IF ~IsOk(str_path) THEN Panic   \* str_path.unwrap()
        ELSE LET splitted == Split(str_path.val, "/")
             IN  IF DerivationPath_split_check(splitted) THEN Err("MaxDepthExceeded")
                 ELSE ParseParts(splitted, <<>>, checks)

----------------------------------------------------------------------------
(* bip32/key_version.rs *)

VERSION_LEN == 4

Versions == {"XPrv", "XPub", "TPrv", "TPub", "ZPrv", "ZPub", "YPrv", "YPub"}

HexChars == <<"0", "1", "2", "3", "4", "5", "6", "7", "8", "9", "a", "b", "c", "d", "e", "f">>

HexVal(c) == CHOOSE n \in 0..15 : HexChars[n + 1] = c

\* hex::decode: two hex digits per byte
RECURSIVE hex_decode(_)
hex_decode(t) ==
    IF t = <<>> THEN <<>>
    ELSE <<HexVal(t[1]) * 16 + HexVal(t[2])>> \o hex_decode(SubSeq(t, 3, Len(t)))

\* hex::encode: two lower-case hex digits per byte
RECURSIVE hex_encode(_)
hex_encode(b) ==
    IF b = <<>> THEN <<>>
    ELSE <<HexChars[(Head(b) \div 16) + 1], HexChars[(Head(b) % 16) + 1]>>
         \o hex_encode(Tail(b))

\* the string literal of each arm of Version::to_bytes
VersionHex(v) ==
    CASE v = "XPrv" -> <<"0", "4", "8", "8", "a", "d", "e", "4">>
      [] v = "XPub" -> <<"0", "4", "8", "8", "b", "2", "1", "e">>
      [] v = "TPrv" -> <<"0", "4", "3", "5", "8", "3", "9", "4">>
      [] v = "TPub" -> <<"0", "4", "3", "5", "8", "7", "c", "f">>
      [] v = "ZPrv" -> <<"0", "4", "b", "2", "4", "3", "0", "c">>
      [] v = "ZPub" -> <<"0", "4", "b", "2", "4", "7", "4", "6">>
      [] v = "YPrv" -> <<"0", "4", "9", "d", "7", "8", "7", "8">>
      [] v = "YPub" -> <<"0", "4", "9", "d", "7", "c", "b", "2">>

Version_to_bytes(v) == hex_decode(VersionHex(v))

\* Version::to_string
Version_to_string(v) ==
    CASE v = "XPrv" -> <<"x", "p", "r", "v">>
      [] v = "XPub" -> <<"x", "p", "u", "b">>
      [] v = "TPrv" -> <<"t", "p", "r", "v">>
      [] v = "TPub" -> <<"t", "p", "u", "b">>
      [] v = "ZPrv" -> <<"z", "p", "r", "v">>
      [] v = "ZPub" -> <<"z", "p", "u", "b">>
      [] v = "YPrv" -> <<"y", "p", "r", "v">>
      [] v = "YPub" -> <<"y", "p", "u", "b">>

\* the string literal each arm of Version::try_from matches hex::encode(value) against
VersionPattern(v) ==
    CASE v = "XPrv" -> <<"x", "p", "r", "v">>
      [] v = "XPub" -> <<"x", "p", "u", "b">>
      [] v = "TPrv" -> <<"t", "p", "r", "v">>
      [] v = "TPub" -> <<"t", "p", "u", "b">>
      [] v = "ZPrv" -> <<"z", "p", "r", "v">>
      [] v = "ZPub" -> <<"z", "p", "u", "b">>
      [] v = "YPrv" -> <<"y", "p", "r", "v">>
      [] v = "YPub" -> <<"y", "p", "u", "b">>

\* impl TryFrom<&[u8]> for Version
Version_try_from(b) ==
    IF Len(b) /= VERSION_LEN THEN Err("VersionTooShort")
    ELSE LET e == hex_encode(b)
         IN  IF \E v \in Versions : VersionPattern(v) = e
             THEN Ok(CHOOSE v \in Versions : VersionPattern(v) = e)
             ELSE Err("InvalidVersion")

----------------------------------------------------------------------------
(* The primitives the key code calls: secp256k1, HMAC-SHA512 and Hash160.   *)
(* They are scaled down to a group small enough to enumerate: the subgroup  *)
(* of order CurveOrder of the multiplicative group modulo FieldPrime, with  *)
(* generator Generator. A point is k*G = Generator^k mod FieldPrime, point  *)
(* addition is multiplication mod FieldPrime, the identity point is 1.      *)
(* Byte arrays keep their real lengths.                                     *)

CurveOrder == 113
FieldPrime == 227
Generator == 4

Zeros(n) == [i \in 1..n |-> 0]

\* SecretKey::public_key: k * G
\* b^e mod m by squaring
RECURSIVE PowMod(_, _, _)
PowMod(b, e, m) ==
    IF e = 0 THEN 1
    ELSE LET h == PowMod(b, e \div 2, m)
         IN  (((h * h) % m) * (IF e % 2 = 1 THEN b ELSE 1)) % m

ScalarMulG(k) == PowMod(Generator, k, FieldPrime)

PointAdd(P, Q) == (P * Q) % FieldPrime

\* PublicKey::serialize: parity prefix 0x02 / 0x03, then 32 bytes big-endian
PublicKey_serialize(P) == <<2 + (P % 2)>> \o Zeros(31) \o <<P>>

\* SecretKey::secret_bytes: 32 bytes big-endian
secret_bytes(k) == Zeros(31) \o <<k>>

\* the value of 32 big-endian bytes, or CurveOrder when it is CurveOrder or more
BytesValue(b) ==
    IF \E i \in 1..30 : b[i] /= 0 THEN CurveOrder
    ELSE LET v == b[31] * 256 + b[32]
         IN  IF v >= CurveOrder THEN CurveOrder ELSE v

\* SecretKey::from_byte_array: fails on zero and on values >= the curve order
SecretKey_from_byte_array(b) ==
    LET v == BytesValue(b)
    IN  IF v = 0 \/ v >= CurveOrder THEN Err("InvalidSecretKey") ELSE Ok(v)

\* Scalar::from_be_bytes: fails on values >= the curve order
Scalar_from_be_bytes(b) ==
    LET v == BytesValue(b)
    IN  IF v >= CurveOrder THEN Err("OutOfRange") ELSE Ok(v)

\* SecretKey::add_tweak: (k + t) mod n, fails when the sum is zero
SecretKey_add_tweak(k, t) ==
    LET r == (k + t) % CurveOrder
    IN  IF r = 0 THEN Err("InvalidTweak") ELSE Ok(r)

\* PublicKey::add_exp_tweak: P + t * G, fails when the sum is the identity
PublicKey_add_exp_tweak(P, t) ==
    LET R == PointAdd(P, ScalarMulG(t))
    IN  IF R = 1 THEN Err("InvalidTweak") ELSE Ok(R)

\* the mixing step the two hash stand-ins share
\* (h, x) |-> h * 31 + x mod 32749 folded over the bytes lo..hi of b, from 0;
\* a run of zero bytes contributes 0 whatever its length
RECURSIVE PolyHash(_, _, _)
PolyHash(b, lo, hi) ==
    IF lo > hi \/ \A i \in lo..hi : b[i] = 0 THEN 0
    ELSE IF lo = hi THEN b[lo]
    ELSE LET mid == (lo + hi) \div 2
         IN  (PolyHash(b, lo, mid) * PowMod(31, hi - mid, 32749)
              + PolyHash(b, mid + 1, hi)) % 32749

\* the same fold from h, the length of b mixed in
Mix(h, b) == (h * PowMod(31, Len(b), 32749) + PolyHash(b, 1, Len(b)) + Len(b)) % 32749

\* hmac::compute_hmac::<HmacSha512>(data, key): 64 bytes, never fails
compute_hmac(data, hmac_key) ==
    LET h == Mix(Mix(5381, hmac_key), data)
    IN  Zeros(31) \o <<h % 128>> \o Zeros(31) \o <<(h \div 128) % 256>>

\* Hash160::from_data(data).as_bytes(): 20 bytes
Hash160(data) ==
    LET h == Mix(17, data)
    IN  <<h % 256, (h \div 256) % 256>> \o Zeros(18)

----------------------------------------------------------------------------
(* crypto/keys/common_attrs.rs *)

ExtendedKeyAttrs_new(depth, parent_fingerprint, child_number) ==
    [depth |-> depth, parent_fingerprint |-> parent_fingerprint,
     child_number |-> child_number]

ExtendedKeyAttrs_default ==
    [depth |-> 0, parent_fingerprint |-> Zeros(4),
     child_number |-> ChildNumber_new(<<0, 0>>).val]

\* `depth + 1` / `depth += 1` on a u8: <<panicked, value>>
U8Inc(d, checks) ==
    IF d + 1 > 255 THEN <<checks, 0>> ELSE <<FALSE, d + 1>>

----------------------------------------------------------------------------
(* crypto/keys/extended_private_key.rs; a returned Self is Ok(self), a      *)
(* panic inside the call is Panic                                           *)

BITCOIN_SEED_STRING == <<66, 105, 116, 99, 111, 105, 110, 32, 115, 101, 101, 100>>

KEY_LENGHT == 32
EXTENDED_KEY_LENGHT == 33

XPrv_public_key(self) == ScalarMulG(self.s_key)

XPrv_fingerprint(self) ==
    SubSeq(Hash160(PublicKey_serialize(XPrv_public_key(self))), 1, 4)

\* to_extended_key_bytes: a leading 0 byte, then the 32 secret bytes
XPrv_to_extended_key_bytes(self) == <<0>> \o secret_bytes(self.s_key)

\* ExtendedPrivateKey::new
XPrv_new(seed_bytes) ==
    LET result == compute_hmac(seed_bytes, BITCOIN_SEED_STRING)
        sk == SecretKey_from_byte_array(SubSeq(result, 1, KEY_LENGHT))
    IN  IF ~IsOk(sk) THEN Panic
        ELSE Ok([attrs |-> ExtendedKeyAttrs_default,
                 chain_code |-> SubSeq(result, KEY_LENGHT + 1, KEY_LENGHT * 2),
                 s_key |-> sk.val])

\* a plausible slip: the private bytes used for normal children too
XPrv_payload_private_only(self, child_number) ==
    XPrv_to_extended_key_bytes(self) \o to_be_bytes(child_number.index)

\* the 37-byte HMAC payload of derive_child
XPrv_payload(self, child_number) ==
    (IF child_number.is_hardened THEN XPrv_to_extended_key_bytes(self)
     ELSE PublicKey_serialize(XPrv_public_key(self)))
    \o to_be_bytes(child_number.index)

\* ExtendedPrivateKey::derive_child
XPrv_derive_child(self, child_number, checks) ==
    LET i == compute_hmac(XPrv_payload(self, child_number), self.chain_code)
        tweak == Scalar_from_be_bytes(SubSeq(i, 1, KEY_LENGHT))
        child_chain_code == SubSeq(i, KEY_LENGHT + 1, KEY_LENGHT * 2)
        child_s_key == SecretKey_add_tweak(self.s_key, tweak.val)
        depth == U8Inc(self.attrs.depth, checks)
    IN  IF ~IsOk(tweak) THEN Panic
        ELSE IF ~IsOk(child_s_key) THEN Panic
        ELSE IF depth[1] THEN Panic
        ELSE Ok([attrs |-> ExtendedKeyAttrs_new(depth[2], XPrv_fingerprint(self),
                                                child_number),
                 chain_code |-> child_chain_code,
                 s_key |-> child_s_key.val])

\* the `for child_number in derivation_path.path` loop of derive_from_path,
\* carrying <<key, depth, path>>
RECURSIVE XPrv_path_loop(_, _, _, _, _)
XPrv_path_loop(rest, key_, depth, path, checks) ==
    IF rest = <<>> THEN Ok(<<key_, depth, path>>)
    ELSE LET child == XPrv_derive_child(key_, Head(rest), checks)
             d == U8Inc(depth, checks)
         IN  IF ~IsOk(child) THEN Panic
             ELSE IF d[1] THEN Panic
             ELSE XPrv_path_loop(Tail(rest), child.val, d[2], Head(rest), checks)

\* what derive_from_path puts into parent_fingerprint
XPrv_path_fingerprint(key_) == XPrv_fingerprint(key_)

\* ExtendedPrivateKey::derive_from_path
XPrv_derive_from_path(seed_bytes, derivation_path, checks) ==
    LET master == XPrv_new(seed_bytes)
    IN  IF ~IsOk(master) THEN Panic
        ELSE LET r == XPrv_path_loop(derivation_path.path, master.val, 0,
                                     ChildNumber_new(<<0, 0>>).val, checks)
             IN  IF ~IsOk(r) THEN Panic
                 ELSE Ok([attrs |-> ExtendedKeyAttrs_new(r.val[2],
                                        XPrv_path_fingerprint(r.val[1]), r.val[3]),
                          s_key |-> r.val[1].s_key,
                          chain_code |-> r.val[1].chain_code])

----------------------------------------------------------------------------
(* crypto/keys/extended_public_key.rs *)

\* impl From<&ExtendedPrivateKey> for ExtendedPublicKey
XPub_from(extended_private_key) ==
    [attrs |-> extended_private_key.attrs,
     chain_code |-> extended_private_key.chain_code,
     p_key |-> XPrv_public_key(extended_private_key)]

XPub_fingerprint(self) == SubSeq(Hash160(PublicKey_serialize(self.p_key)), 1, 4)

XPub_public_key_bytes(self) == PublicKey_serialize(self.p_key)

\* a plausible slip: the hardened arm not failing
XPub_hardened_check_missing(child_number) == FALSE

\* `match child_number.is_hardened { true => Err(()), ... }?`
XPub_hardened_check(child_number) == child_number.is_hardened

\* ExtendedPublicKey::derive_child
XPub_derive_child(self, child_number, checks) ==
    IF XPub_hardened_check(child_number) THEN Err(<<>>)
    ELSE LET payload == PublicKey_serialize(self.p_key) \o to_be_bytes(child_number.index)
             i == compute_hmac(payload, self.chain_code)
             tweak == Scalar_from_be_bytes(SubSeq(i, 1, KEY_LENGHT))
             child_chain_code == SubSeq(i, KEY_LENGHT + 1, KEY_LENGHT * 2)
             child_p_key == PublicKey_add_exp_tweak(self.p_key, tweak.val)
             depth == U8Inc(self.attrs.depth, checks)
         IN  IF ~IsOk(tweak) THEN Panic
             ELSE IF ~IsOk(child_p_key) THEN Panic
             ELSE IF depth[1] THEN Panic
             ELSE Ok([attrs |-> ExtendedKeyAttrs_new(depth[2], XPub_fingerprint(self),
                                                     child_number),
                      chain_code |-> child_chain_code,
                      p_key |-> child_p_key.val])

----------------------------------------------------------------------------
(* The Base58Check codec of stacks_common::address::b58, by its contract:   *)
(* encode appends a 4-byte checksum and writes the bytes in the Base58      *)
(* alphabet; decode rejects characters outside the alphabet and a wrong     *)
(* checksum. Each byte is written as two alphabet characters.               *)

Base58Alphabet ==
    << "1", "2", "3", "4", "5", "6", "7", "8", "9", "A", "B", "C", "D", "E", "F", "G",
       "H", "J", "K", "L", "M", "N", "P", "Q", "R", "S", "T", "U", "V", "W", "X", "Y",
       "Z", "a", "b", "c", "d", "e", "f", "g", "h", "i", "j", "k", "m", "n", "o", "p",
       "q", "r", "s", "t", "u", "v", "w", "x", "y", "z" >>

Base58Index(c) == CHOOSE n \in 0..57 : Base58Alphabet[n + 1] = c

b58_checksum(data) ==
    LET h == Mix(99, data)
    IN  <<h % 256, (h \div 256) % 256, (h * 7) % 256, Len(data) % 256>>

\* b58::check_encode_slice
b58_check_encode_slice(data) ==
    LET all == data \o b58_checksum(data)
    IN  [i \in 1..(2 * Len(all)) |->
            IF i % 2 = 1 THEN Base58Alphabet[(all[(i + 1) \div 2] \div 58) + 1]
            ELSE Base58Alphabet[(all[i \div 2] % 58) + 1]]

\* b58::from_check
b58_from_check(text) ==
    IF \E i \in 1..Len(text) : \A n \in 1..58 : Base58Alphabet[n] /= text[i]
    THEN Err("BadByte")
    ELSE IF Len(text) % 2 /= 0 \/ Len(text) < 8 THEN Err("TooShort")
    ELSE LET all == [i \in 1..(Len(text) \div 2) |->
                        Base58Index(text[2 * i - 1]) * 58 + Base58Index(text[2 * i])]
             data == SubSeq(all, 1, Len(all) - 4)
         IN  IF \E i \in 1..Len(all) : all[i] > 255 THEN Err("BadByte")
             ELSE IF SubSeq(all, Len(all) - 3, Len(all)) /= b58_checksum(data)
             THEN Err("BadChecksum")
             ELSE Ok(data)

----------------------------------------------------------------------------
(* bip32/extended_keys.rs: the wire form *)

BYTE_SIZE == 78

\* ExtendedPrivateKey::to_extended_key
XPrv_to_extended_key(self, version) ==
    [version |-> version,
     depth |-> self.attrs.depth,
     parent_fingerprint |-> self.attrs.parent_fingerprint,
     child_number |-> self.attrs.child_number,
     chain_code |-> self.chain_code,
     key_bytes |-> XPrv_to_extended_key_bytes(self)]

\* ExtendedPublicKey::to_extended_key
XPub_to_extended_key(self, version) ==
    [version |-> version,
     depth |-> self.attrs.depth,
     parent_fingerprint |-> self.attrs.parent_fingerprint,
     child_number |-> self.attrs.child_number,
     chain_code |-> self.chain_code,
     key_bytes |-> XPub_public_key_bytes(self)]

\* the layout with the child index written by to_le_bytes, least significant
\* byte first
ExtendedKey_bytes_index_le(self) ==
    Version_to_bytes(self.version)
    \o <<self.depth>>
    \o self.parent_fingerprint
    \o <<self.child_number.index[2] % 256, self.child_number.index[2] \div 256,
         self.child_number.index[1] % 256, self.child_number.index[1] \div 256>>
    \o self.chain_code
    \o self.key_bytes

\* the 78 bytes b58_encode lays out
ExtendedKey_bytes(self) ==
    Version_to_bytes(self.version)
    \o <<self.depth>>
    \o self.parent_fingerprint
    \o to_be_bytes(self.child_number.index)
    \o self.chain_code
    \o self.key_bytes

\* ExtendedKey::b58_encode
ExtendedKey_b58_encode(self) == b58_check_encode_slice(ExtendedKey_bytes(self))

\* ExtendedKey::from_str, as section 4.6 of the specification describes it:
\* Base58Check-decode, slice the fields in the order of b58_encode, rebuild
\* the version with Version::try_from and the child number with
\* ChildNumber::new(u32::from_be_bytes)
ExtendedKey_from_str(text) ==
    LET checked == b58_from_check(text)
    IN  IF ~IsOk(checked) THEN Err(checked.err)
        ELSE IF Len(checked.val) < BYTE_SIZE THEN Err("WrongLength")
        ELSE LET b == checked.val
                 version == Version_try_from(SubSeq(b, 1, 4))
                 child_number == ChildNumber_new(from_be_bytes(SubSeq(b, 10, 13)))
             IN  IF ~IsOk(version) THEN Err(version.err)
                 ELSE IF ~IsOk(child_number) THEN Err(child_number.err)
                 ELSE Ok([version |-> version.val,
                          depth |-> b[5],
                          parent_fingerprint |-> SubSeq(b, 6, 9),
                          child_number |-> child_number.val,
                          chain_code |-> SubSeq(b, 14, 45),
                          key_bytes |-> SubSeq(b, 46, 78)])

----------------------------------------------------------------------------
(* The state machine: inputs are assembled piece by piece, then an          *)
(* operation of the library is applied to them.                             *)

Init ==
    /\ overflow_checks \in BOOLEAN
    /\ op = "init"
    /\ value = <<>> /\ version_res = None /\ version_in = None
    /\ index = <<0, 0>> /\ cn_s = <<>> /\ cn_n = 0 /\ cn_res = None
    /\ s = <<>> /\ nsegs = 0 /\ path_res = None
    /\ seed = <<>> /\ trail = <<>> /\ key = None /\ parent = None /\ dres = None
    /\ xpub = None /\ xpub_cn = ChildNumber_new(<<0, 0>>).val /\ xpub_res = None
    /\ ek = None /\ bytes = None /\ encoded = None /\ decoded = None

(* ---- key_version.rs ---- *)

\* bytes to assemble slices from: the bytes of the xprv magic and of "xp"
ByteSamples == {4, 136, 173, 228, 120, 112}

\* let value = v.to_bytes()
VersionToBytes(v) ==
    /\ value' = Version_to_bytes(v)
    /\ version_in' = [tag |-> "Some", val |-> v]
    /\ version_res' = None
    /\ op' = "Version::to_bytes"
    /\ UNCHANGED <<overflow_checks, childVars, pathVars, keyVars, wireVars>>

\* a caller's arbitrary slice, one byte more
VersionPushByte(b) ==
    /\ Len(value) < MaxSlice
    /\ version_in = None
    /\ value' = Append(value, b)
    /\ version_res' = None
    /\ op' = "input"
    /\ UNCHANGED <<overflow_checks, version_in, childVars, pathVars, keyVars, wireVars>>

\* Version::try_from(&value[..])
VersionTryFrom ==
    /\ version_res' = Version_try_from(value)
    /\ op' = "Version::try_from"
    /\ UNCHANGED <<overflow_checks, value, version_in, childVars, pathVars, keyVars, wireVars>>

NextVersion ==
    \/ \E v \in Versions : VersionToBytes(v)
    \/ \E b \in ByteSamples : VersionPushByte(b)
    \/ VersionTryFrom

SpecVersion == Init /\ [][NextVersion]_vars

(* ---- child_number.rs ---- *)

HalfSamples ==
    (0..Spread) \cup ((32768 - Spread)..(32768 + Spread)) \cup ((65535 - Spread)..65535)

IndexSamples == {<<h, l>> : h \in HalfSamples, l \in HalfSamples}

\* pieces the texts handed to ChildNumber::from_str are assembled from
Tokens ==
    { <<"0">>, <<"4">>, <<"8">>, <<"9">>, <<"'">>, <<"c">>, <<"+">>,
      <<"2", "1", "4", "7", "4", "8", "3", "6", "4">>,
      <<"4", "2", "9", "4", "9", "6", "7", "2", "9">> }

\* ChildNumber::new(i)
ChildNew(i) ==
    /\ index' = i
    /\ cn_res' = ChildNumber_new(i)
    /\ op' = "ChildNumber::new"
    /\ cn_s' = <<>> /\ cn_n' = 0
    /\ UNCHANGED <<overflow_checks, versionVars, pathVars, keyVars, wireVars>>

ChildAppendToken(tok) ==
    /\ cn_n < MaxTokens
    /\ cn_s' = cn_s \o tok
    /\ cn_n' = cn_n + 1
    /\ cn_res' = None
    /\ index' = <<0, 0>>
    /\ op' = "input"
    /\ UNCHANGED <<overflow_checks, versionVars, pathVars, keyVars, wireVars>>

\* ChildNumber::from_str(cn_s)
ChildFromStr ==
    /\ cn_res' = ChildNumber_from_str(cn_s, overflow_checks)
    /\ op' = "ChildNumber::from_str"
    /\ UNCHANGED <<overflow_checks, index, cn_s, cn_n, versionVars, pathVars, keyVars, wireVars>>

NextChild ==
    \/ \E i \in IndexSamples : ChildNew(i)
    \/ \E tok \in Tokens : ChildAppendToken(tok)
    \/ ChildFromStr

SpecChild == Init /\ [][NextChild]_vars

(* ---- derivation_path.rs ---- *)

Prefixes == { <<"m", "/">>, <<"x", "/">> }

Segments ==
    { <<"0">>, <<"4", "4", "'">>, <<"c">>,
      <<"2", "1", "4", "7", "4", "8", "3", "6", "4", "9">>,
      <<"2", "1", "4", "7", "4", "8", "3", "6", "4", "8", "'">> }

PathPrefix(p) ==
    /\ s = <<>>
    /\ s' = p
    /\ path_res' = None
    /\ op' = "input"
    /\ UNCHANGED <<overflow_checks, nsegs, versionVars, childVars, keyVars, wireVars>>

PathAppendSegment(seg) ==
    /\ nsegs < MaxSegs
    /\ s' = IF nsegs = 0 THEN s \o seg ELSE s \o <<"/">> \o seg
    /\ nsegs' = nsegs + 1
    /\ path_res' = None
    /\ op' = "input"
    /\ UNCHANGED <<overflow_checks, versionVars, childVars, keyVars, wireVars>>

\* DerivationPath::from_str(s)
PathFromStr ==
    /\ path_res' = DerivationPath_from_str(s, overflow_checks)
    /\ op' = "DerivationPath::from_str"
    /\ UNCHANGED <<overflow_checks, s, nsegs, versionVars, childVars, keyVars, wireVars>>

NextPath ==
    \/ \E p \in Prefixes : PathPrefix(p)
    \/ \E seg \in Segments : PathAppendSegment(seg)
    \/ PathFromStr

SpecPath == Init /\ [][NextPath]_vars

(* ---- extended_private_key.rs, extended_public_key.rs ---- *)

\* 000102030405060708090a0b0c0d0e0f of BIP32's test vector 1, and a one-byte seed
Seeds ==
    { <<0, 1, 2, 3, 4, 5, 6, 7, 8, 9, 10, 11, 12, 13, 14, 15>>, <<1>> }

\* the child numbers 0, 1, 0' and 1'
ChildNumbers ==
    { ChildNumber_new(i).val : i \in {<<0, 0>>, <<0, 1>>, <<32768, 0>>, <<32768, 1>>} }

\* let key = ExtendedPrivateKey::new(&sd)
KeyNew(sd) ==
    /\ seed' = sd
    /\ trail' = <<>>
    /\ key' = XPrv_new(sd)
    /\ parent' = None
    /\ dres' = None /\ xpub' = None /\ xpub_res' = None
    /\ op' = "ExtendedPrivateKey::new"
    /\ ek' = None /\ bytes' = None /\ encoded' = None /\ decoded' = None
    /\ UNCHANGED <<overflow_checks, xpub_cn, versionVars, childVars, pathVars>>

\* key = key.derive_child(cn)
KeyDeriveChild(cn) ==
    /\ IsOk(key)
    /\ Len(trail) < MaxSteps
    /\ parent' = key
    /\ key' = XPrv_derive_child(key.val, cn, overflow_checks)
    /\ trail' = Append(trail, cn)
    /\ dres' = None /\ xpub' = None /\ xpub_res' = None
    /\ op' = "ExtendedPrivateKey::derive_child"
    /\ ek' = None /\ bytes' = None /\ encoded' = None /\ decoded' = None
    /\ UNCHANGED <<overflow_checks, seed, xpub_cn, versionVars, childVars, pathVars>>

\* ExtendedPrivateKey::derive_from_path(&seed, DerivationPath { path: trail })
KeyDeriveFromPath ==
    /\ key.tag /= "None"
    /\ dres' = XPrv_derive_from_path(seed, [path |-> trail], overflow_checks)
    /\ op' = "ExtendedPrivateKey::derive_from_path"
    /\ UNCHANGED <<overflow_checks, seed, trail, key, parent, xpub, xpub_cn, xpub_res,
                   versionVars, childVars, pathVars, wireVars>>

\* let xpub = ExtendedPublicKey::from(&key)
PubFrom ==
    /\ IsOk(key)
    /\ xpub' = Ok(XPub_from(key.val))
    /\ xpub_res' = None
    /\ op' = "ExtendedPublicKey::from"
    /\ ek' = None /\ bytes' = None /\ encoded' = None /\ decoded' = None
    /\ UNCHANGED <<overflow_checks, seed, trail, key, parent, dres, xpub_cn,
                   versionVars, childVars, pathVars>>

\* xpub.derive_child(cn)
PubDeriveChild(cn) ==
    /\ IsOk(xpub)
    /\ xpub_cn' = cn
    /\ xpub_res' = XPub_derive_child(xpub.val, cn, overflow_checks)
    /\ op' = "ExtendedPublicKey::derive_child"
    /\ UNCHANGED <<overflow_checks, seed, trail, key, parent, dres, xpub,
                   versionVars, childVars, pathVars, wireVars>>

\* the derived public child becomes the parent of the next public derivation
PubAdvance ==
    /\ IsOk(xpub_res)
    /\ xpub_res.val.attrs.depth < MaxSteps
    /\ xpub' = xpub_res
    /\ xpub_res' = None
    /\ op' = "input"
    /\ UNCHANGED <<overflow_checks, seed, trail, key, parent, dres, xpub_cn,
                   versionVars, childVars, pathVars, wireVars>>

Next ==
    \/ \E sd \in Seeds : KeyNew(sd)
    \/ \E cn \in ChildNumbers : KeyDeriveChild(cn)
    \/ KeyDeriveFromPath
    \/ PubFrom
    \/ \E cn \in ChildNumbers : PubDeriveChild(cn)
    \/ PubAdvance

Spec == Init /\ [][Next]_vars

(* ---- long derivation chains ---- *)

\* the indexes a caller walking down one branch tries, in this order: BIP32 has
\* the caller "proceed with the next value for i" when a child is refused
ChainOrder ==
    <<<<0, 0>>, <<0, 1>>, <<32768, 0>>, <<32768, 1>>, <<1, 0>>, <<32769, 0>>,
      <<2, 0>>, <<32770, 0>>>>

\* the curve accepts the tweak of this child (the build's overflow checks aside)
TweakAccepted(self, cn) == IsOk(XPrv_derive_child(self, cn, FALSE))

\* key = key.derive_child(ChildNumber::new(ChainOrder[n])), the first child of
\* ChainOrder the curve accepts: one branch of the tree, MaxChain steps down
KeyDeriveNext(n) ==
    LET cn == ChildNumber_new(ChainOrder[n]).val
    IN  /\ IsOk(key)
        /\ Len(trail) < MaxChain
        /\ TweakAccepted(key.val, cn)
        /\ \A m \in 1..(n - 1) : ~TweakAccepted(key.val, ChildNumber_new(ChainOrder[m]).val)
        /\ parent' = key
        /\ key' = XPrv_derive_child(key.val, cn, overflow_checks)
        /\ trail' = Append(trail, cn)
        /\ dres' = None /\ xpub' = None /\ xpub_res' = None
        /\ op' = "ExtendedPrivateKey::derive_child"
        /\ UNCHANGED <<overflow_checks, seed, xpub_cn, versionVars, childVars, pathVars,
                       wireVars>>

NextDeep ==
    \/ \E sd \in Seeds : KeyNew(sd)
    \/ \E n \in DOMAIN ChainOrder : KeyDeriveNext(n)
    \/ PubFrom
    \/ \E cn \in ChildNumbers : PubDeriveChild(cn)

SpecDeep == Init /\ [][NextDeep]_vars

(* ---- extended_keys.rs ---- *)

\* let ek = key.to_extended_key(v)
PrvToExtendedKey(v) ==
    /\ IsOk(key)
    /\ ek' = Ok(XPrv_to_extended_key(key.val, v))
    /\ bytes' = None /\ encoded' = None /\ decoded' = None
    /\ op' = "ExtendedPrivateKey::to_extended_key"
    /\ UNCHANGED <<overflow_checks, versionVars, childVars, pathVars, keyVars>>

\* let ek = xpub.to_extended_key(v)
PubToExtendedKey(v) ==
    /\ IsOk(xpub)
    /\ ek' = Ok(XPub_to_extended_key(xpub.val, v))
    /\ bytes' = None /\ encoded' = None /\ decoded' = None
    /\ op' = "ExtendedPublicKey::to_extended_key"
    /\ UNCHANGED <<overflow_checks, versionVars, childVars, pathVars, keyVars>>

\* let encoded = ek.b58_encode()
B58Encode ==
    /\ IsOk(ek)
    /\ bytes' = Ok(ExtendedKey_bytes(ek.val))
    /\ encoded' = Ok(ExtendedKey_b58_encode(ek.val))
    /\ decoded' = None
    /\ op' = "ExtendedKey::b58_encode"
    /\ UNCHANGED <<overflow_checks, ek, versionVars, childVars, pathVars, keyVars>>

\* ExtendedKey::from_str(&encoded)
FromStr ==
    /\ IsOk(encoded)
    /\ decoded' = ExtendedKey_from_str(encoded.val)
    /\ op' = "ExtendedKey::from_str"
    /\ UNCHANGED <<overflow_checks, ek, bytes, encoded, versionVars, childVars, pathVars,
                   keyVars>>

NextWire ==
    \/ \E sd \in Seeds : KeyNew(sd)
    \/ \E cn \in ChildNumbers : KeyDeriveChild(cn)
    \/ PubFrom
    \/ \E v \in Versions : PrvToExtendedKey(v)
    \/ \E v \in Versions : PubToExtendedKey(v)
    \/ B58Encode
    \/ FromStr

SpecWire == Init /\ [][NextWire]_vars

----------------------------------------------------------------------------
(* Claims about key_version.rs, checked under SpecVersion *)

\* C4: for each of the 8 Version variants v, decoding the 4 magic bytes it
\* encodes to returns the same variant: Version::try_from(&v.to_bytes()[..])
\* = Ok(v), the 8 magics being pairwise distinct.
C4_RoundTrip ==
    /\ (op = "Version::try_from" /\ version_in.tag = "Some")
          => version_res = Ok(version_in.val)
    /\ \A v, w \in Versions : Version_to_bytes(v) = Version_to_bytes(w) => v = w

----------------------------------------------------------------------------
(* Claims about child_number.rs, checked under SpecChild *)

\* the text is decimal digits followed by exactly one, trailing, apostrophe
IsHardenedText(t) ==
    /\ Len(t) >= 2
    /\ t[Len(t)] = "'"
    /\ \A i \in 1..(Len(t) - 1) : t[i] \in Digits

\* C8: ChildNumber::new succeeds for every u32 index, and every ChildNumber
\* produced by new or by from_str has is_hardened exactly when its index is
\* at least 2^31.
C8_HardenedIffHighBit ==
    /\ op = "ChildNumber::new" =>
          /\ IsOk(cn_res)
          /\ cn_res.val.index = index
          /\ cn_res.val.is_hardened <=> (index[1] >= 32768)
    /\ (op = "ChildNumber::from_str" /\ IsOk(cn_res)) =>
          (cn_res.val.is_hardened <=> (cn_res.val.index[1] >= 32768))

\* C8 witness: new was applied to exactly 2^31 and to nothing smaller
C8_Witness ==
    /\ op = "ChildNumber::new"
    /\ index = <<32768, 0>>
    /\ IsOk(cn_res) /\ cn_res.val.is_hardened

\* C9: from_str on "n'" returns the hardened index n + 2^31 when n < 2^31 and
\* Err(CannotParseindex) when n >= 2^31; the addition neither wraps around to
\* a non-hardened index nor aborts.
C9_HardenedSuffix ==
    (op = "ChildNumber::from_str" /\ IsHardenedText(cn_s)) =>
        LET n == parse_u32(SubSeq(cn_s, 1, Len(cn_s) - 1))
        IN  IF IsOk(n) /\ n.val[1] < 32768
            THEN cn_res = Ok([index |-> <<n.val[1] + 32768, n.val[2]>>,
                              is_hardened |-> TRUE])
            ELSE cn_res = Err("CannotParseindex")

----------------------------------------------------------------------------
(* Claims about derivation_path.rs, checked under SpecPath *)

\* the number of "/"-separated segments of the text after its 2-character prefix
SegmentCount(t) == Cardinality({i \in 3..Len(t) : t[i] = "/"}) + 1

\* the k-th "/"-separated segment of the text after its 2-character prefix
SegmentAt(t, k) ==
    LET cuts == {2} \cup {i \in 3..Len(t) : t[i] = "/"} \cup {Len(t) + 1}
        from == CHOOSE i \in cuts : Cardinality({j \in cuts : j < i}) = k - 1
        to == CHOOSE i \in cuts : Cardinality({j \in cuts : j < i}) = k
    IN  SubSeq(t, from + 1, to - 1)

\* C6: from_str on a text that does not start with "m/" returns
\* Err(WrongPathPrefix) to the caller; it does not abort inside the parser.
C6_WrongPrefixIsErr ==
    (op = "DerivationPath::from_str" /\ ~HasPrefix(s, <<"m", "/">>))
        => path_res = Err("WrongPathPrefix")

\* C7: from_str fails with MaxDepthExceeded whenever the text after "m/" has
\* more than 5 segments, and every path it returns has between 1 and 5 child
\* numbers, the i-th being the parse of the i-th segment of the text.
C7_DepthBoundAndOrder ==
    (op = "DerivationPath::from_str" /\ HasPrefix(s, <<"m", "/">>)) =>
        /\ SegmentCount(s) > 5 => path_res = Err("MaxDepthExceeded")
        /\ IsOk(path_res) =>
              /\ Len(path_res.val.path) \in 1..5
              /\ Len(path_res.val.path) = SegmentCount(s)
              /\ \A i \in 1..Len(path_res.val.path) :
                    Ok(path_res.val.path[i])
                        = ChildNumber_from_str(SegmentAt(s, i), overflow_checks)

\* C7 witness: a 5-segment text was parsed into 5 child numbers, hardened
\* first and normal last
C7_Witness ==
    /\ op = "DerivationPath::from_str"
    /\ IsOk(path_res)
    /\ Len(path_res.val.path) = 5
    /\ path_res.val.path[1].is_hardened
    /\ ~path_res.val.path[5].is_hardened

\* C10: from_str fails for a path with a segment written without an
\* apostrophe whose value is at least 2^31.
C10_PlainHighIndexRejected ==
    ( /\ op = "DerivationPath::from_str"
      /\ HasPrefix(s, <<"m", "/">>)
      /\ \E k \in 1..SegmentCount(s) :
            LET seg == SegmentAt(s, k)
            IN  /\ ~Contains(seg, "'")
                /\ IsOk(parse_u32(seg))
                /\ parse_u32(seg).val[1] >= 32768 )
        => path_res.tag /= "Ok"

----------------------------------------------------------------------------
(* Claims about the extended keys, checked under Spec *)

\* C1: derive_from_path(seed, path) returns exactly the key obtained by
\* folding derive_child over the path's child numbers starting from
\* new(seed): same secret scalar, same chain code and same attrs, the
\* parent_fingerprint being that of the leaf's parent (all-zero for an empty
\* path), not the fingerprint of the returned key itself.
C1_DeriveFromPathIsFold ==
    op = "ExtendedPrivateKey::derive_from_path" => dres = key

\* C2: ExtendedPublicKey::derive_child fails, producing no child key, for
\* every parent and every hardened child number, and returns a child only
\* for non-hardened child numbers.
C2_HardenedFromPublicFails ==
    op = "ExtendedPublicKey::derive_child" =>
        /\ xpub_cn.index[1] >= 32768 => xpub_res = Err(<<>>)
        /\ IsOk(xpub_res) => xpub_cn.index[1] < 32768

\* C2 witness: a derived (depth 1 or more) public parent was asked for a
\* hardened child and answered with the failure
C2_Witness ==
    /\ op = "ExtendedPublicKey::derive_child"
    /\ xpub.val.attrs.depth >= 1
    /\ xpub_cn.is_hardened
    /\ xpub_res = Err(<<>>)

\* C3: for every private parent and every non-hardened child number i,
\* ExtendedPublicKey::from(&parent).derive_child(i) has the point, the chain
\* code and the attrs of ExtendedPublicKey::from(&parent.derive_child(i)).
C3_PublicDerivationCommutes ==
    ( /\ op = "ExtendedPublicKey::derive_child"
      /\ IsOk(key)
      /\ xpub = Ok(XPub_from(key.val))
      /\ ~xpub_cn.is_hardened ) =>
        LET child == XPrv_derive_child(key.val, xpub_cn, overflow_checks)
        IN  IF IsOk(child) THEN xpub_res = Ok(XPub_from(child.val))
            ELSE xpub_res = Panic

\* C3 witness: a normal child was derived on the public side of a private
\* parent that is itself a derived key
C3_Witness ==
    /\ op = "ExtendedPublicKey::derive_child"
    /\ IsOk(key) /\ Len(trail) >= 1
    /\ xpub = Ok(XPub_from(key.val))
    /\ ~xpub_cn.is_hardened
    /\ IsOk(xpub_res)
    /\ xpub_res.val.attrs.depth = Len(trail) + 1

----------------------------------------------------------------------------
(* Claims about the wire form, checked under SpecWire *)

\* C5: for any valid ExtendedKey k, ExtendedKey::from_str(k.b58_encode())
\* reconstructs an ExtendedKey with identical version, depth,
\* parent_fingerprint, child_number, chain_code and key_bytes.
C5_B58RoundTrip ==
    op = "ExtendedKey::from_str" => decoded = ek

\* the byte at position i of b replaced by a different one
OtherByteAt(b, i) == [b EXCEPT ![i] = (@ + 1) % 256]

\* ExtendedKeys that differ from e in exactly one field: another version,
\* another depth, another child number, or one byte of the parent fingerprint,
\* of the chain code or of the key bytes changed
OneFieldChanged(e) ==
    { [e EXCEPT !.version = v] : v \in Versions \ {e.version} }
    \cup { [e EXCEPT !.depth = d] : d \in {0, 1, (e.depth + 1) % 256, 255} \ {e.depth} }
    \cup { [e EXCEPT !.parent_fingerprint = OtherByteAt(@, i)] : i \in 1..4 }
    \cup { [e EXCEPT !.child_number = ChildNumber_new(x).val] :
             x \in IndexSamples \ {e.child_number.index} }
    \cup { [e EXCEPT !.chain_code = OtherByteAt(@, i)] : i \in 1..KEY_LENGHT }
    \cup { [e EXCEPT !.key_bytes = OtherByteAt(@, i)] : i \in 1..EXTENDED_KEY_LENGHT }

\* C14: the payload b58_encode hands to the Base58Check encoder is exactly 78
\* bytes: the version magic at 0..4, the depth at 4, the parent fingerprint at
\* 5..9, the child index big-endian at 9..13, the chain code at 13..45 and the
\* key bytes at 45..78, every byte written once, so that an ExtendedKey
\* differing in any one field has a different payload.
C14_PayloadLayout ==
    op = "ExtendedKey::b58_encode" =>
        LET b == bytes.val
            e == ek.val
        IN  /\ Len(b) = 78
            /\ SubSeq(b, 1, 4) = Version_to_bytes(e.version)
            /\ b[5] = e.depth
            /\ SubSeq(b, 6, 9) = e.parent_fingerprint
            /\ (b[10] * 256 + b[11]) = e.child_number.index[1]
            /\ (b[12] * 256 + b[13]) = e.child_number.index[2]
            /\ \A i \in 10..13 : b[i] \in 0..255
            /\ SubSeq(b, 14, 45) = e.chain_code
            /\ SubSeq(b, 46, 78) = e.key_bytes
            /\ \A other \in OneFieldChanged(e) : ExtendedKey_bytes(other) # b

\* C14 witness: the ExtendedKey of a hardened child (depth 1 or more, a
\* parent fingerprint, the index's most significant byte set) was laid out
C14_Witness ==
    /\ op = "ExtendedKey::b58_encode"
    /\ IsOk(bytes)
    /\ ek.val.depth >= 1
    /\ ek.val.parent_fingerprint # Zeros(4)
    /\ ek.val.child_number.index = <<32768, 1>>

\* IL is not below the curve order, or adding it to the parent's secret key
\* gives the zero scalar (extended_private_key.rs: the two unwraps of
\* derive_child)
XPrv_tweak_refused(self, child_number) ==
    LET i == compute_hmac(XPrv_payload(self, child_number), self.chain_code)
        tweak == Scalar_from_be_bytes(SubSeq(i, 1, KEY_LENGHT))
    IN  ~IsOk(tweak) \/ ~IsOk(SecretKey_add_tweak(self.s_key, tweak.val))

\* IL is not below the curve order, or adding IL * G to the parent's point
\* gives the identity (extended_public_key.rs: the two unwraps of derive_child)
XPub_tweak_refused(self, child_number) ==
    LET i == compute_hmac(PublicKey_serialize(self.p_key)
                              \o to_be_bytes(child_number.index), self.chain_code)
        tweak == Scalar_from_be_bytes(SubSeq(i, 1, KEY_LENGHT))
    IN  ~IsOk(tweak) \/ ~IsOk(PublicKey_add_exp_tweak(self.p_key, tweak.val))

\* C13: when IL is out of range, or adding it gives the zero scalar (private)
\* or the identity point (public), derive_child returns the typed failure
\* TweakOutOfRange as a value: it neither panics nor returns a key.
C13_TweakOutOfRangeIsValue ==
    /\ (op = "ExtendedPrivateKey::derive_child"
            /\ XPrv_tweak_refused(parent.val, trail[Len(trail)])) =>
          key = Err("TweakOutOfRange")
    /\ (op = "ExtendedPublicKey::derive_child" /\ ~xpub_cn.is_hardened
            /\ XPub_tweak_refused(xpub.val, xpub_cn)) =>
          xpub_res = Err("TweakOutOfRange")

\* the text is one or more decimal digits
IsPlainText(t) ==
    /\ Len(t) >= 1
    /\ \A i \in 1..Len(t) : t[i] \in Digits

\* C15: from_str accepts only decimal digits optionally followed by one
\* trailing apostrophe: a text with an apostrophe anywhere else, or with more
\* than one, such as "4'4", "'44" or "44''", is rejected with
\* CannotParseindex rather than parsed as a hardened index.
C15_MisplacedApostropheRejected ==
    (op = "ChildNumber::from_str" /\ ~IsPlainText(cn_s) /\ ~IsHardenedText(cn_s)) =>
        cn_res = Err("CannotParseindex")

-----------------------------------------------------------------------------
(* Claims about long derivation chains, checked under SpecDeep *)

\* C11: after k successful derive_child steps from new(seed) the key has
\* depth k: the master has depth 0, an all-zero parent_fingerprint and child
\* number 0, and each step yields a child with depth = the parent's depth + 1,
\* parent_fingerprint = parent.fingerprint() and child_number = the step's
\* input, the parent being left as it was.
C11_DepthCountsSteps ==
    /\ (op = "ExtendedPrivateKey::new" /\ IsOk(key)) =>
          /\ key.val.attrs.depth = 0
          /\ key.val.attrs.parent_fingerprint = Zeros(4)
          /\ key.val.attrs.child_number = ChildNumber_new(<<0, 0>>).val
    /\ (op = "ExtendedPrivateKey::derive_child" /\ IsOk(key)) =>
          /\ key.val.attrs.depth = Len(trail)
          /\ key.val.attrs.depth = parent.val.attrs.depth + 1
          /\ key.val.attrs.parent_fingerprint = XPrv_fingerprint(parent.val)
          /\ key.val.attrs.child_number = trail[Len(trail)]

\* C12: derive_child, private or public, on a parent of depth 255 fails with
\* DepthExceeded: it returns no child whose 8-bit depth wrapped to 0 and it
\* does not abort on the overflowing depth + 1.
C12_DepthExceededAt255 ==
    /\ (op = "ExtendedPrivateKey::derive_child" /\ parent.val.attrs.depth = 255) =>
          key = Err("DepthExceeded")
    /\ (op = "ExtendedPublicKey::derive_child" /\ xpub.val.attrs.depth = 255
            /\ ~xpub_cn.is_hardened) =>
          xpub_res = Err("DepthExceeded")

====
